---- MODULE Spec2Model ----
(***************************************************************************)
(* Model of the synchrotron single-threaded busy-wait executor             *)
(* (src/src/lib.rs), its one-shot result cell (src/src/drop_off.rs) and    *)
(* the mailbox round trip of tests/simple.rs.                              *)
(***************************************************************************)
EXTENDS Integers, Sequences, FiniteSets, TLC

\* ------------------------------------------------------------------------
\* Bounds of the model
\* ------------------------------------------------------------------------
MaxTickets == 3
MaxSlots == 2
MaxTakes == 4
WokenCap == 2
MaxHandles == 2
MaxPending == 2
MaxLockTickets == 2


\* ------------------------------------------------------------------------
\* State
\* ------------------------------------------------------------------------
VARIABLES
    queue,      \* Inner.queue: the IndexQueue, front first
    tickets,    \* every Ticket ever built: [id, queue] (TicketInner)
    held,       \* tickets handed out by task::park() to other wakers
    slots,      \* Inner.spawns: the arena's slot vector
    free,       \* Inner.spawns: the arena's free list, head first
    run,        \* the RunFuture bound to the Core, if any
    polling,    \* the poll_future call in progress, if any
    mode,       \* "idle", or which run loop the drive thread is inside
    ret,        \* what the drive thread's last call returned
    coreAlive,  \* the Core (the Rc<RefCell<Inner>>) has not been dropped
    abandoned   \* history: a RunFuture was dropped before its task finished

coreVars == <<queue, tickets, held, slots, free, run, polling, mode, ret,
              coreAlive, abandoned>>

VARIABLES
    cellVal,    \* drop_off: the RefCell<Option<T>>, 0 for None
    senderSt,   \* drop_off: the Sender: "live", "sent" or "dropped"
    receiverSt, \* drop_off: the Receiver: "live", "taken", "gone", "dropped"
    cellWrites, \* how many times the cell has been assigned
    cellLog     \* the calls made on the pair and what each returned

cellVars == <<cellVal, senderSt, receiverSt, cellWrites, cellLog>>

VARIABLES
    inbox,      \* tests/simple.rs: main_inbox and aux_inbox (Inbox)
    threads,    \* tests/simple.rs: the thread send() starts per message
    stage,      \* tests/simple.rs: which receive each task's chain is at
    got,        \* tests/simple.rs: the messages each task has received
    pollOut     \* tests/simple.rs: what the running poll is about to return

testVars == <<inbox, threads, stage, got, pollOut>>

VARIABLES
    handles,    \* how many Handles (rc::Weak<RefCell<Inner>>) exist
    discarded   \* history: a spawn found the Core gone and dropped its task

handleVars == <<handles, discarded>>

VARIABLES
    adState,    \* SpawnFuture's State: "Starting", "Waiting" or "Invalid"
    adTask,     \* SpawnedFuture.task: the ticket task::park() gave, 0 if
                \* the adapter is polled by a task of another executor
    adOut,      \* what the adapter's or the wrapper's running poll returns
    adRet,      \* what the adapter's last poll returned
    adResult,   \* history: the result the wrapped future resolved with
    adPending   \* how many times the wrapped future has answered NotReady

adVars == <<adState, adTask, adOut, adRet, adResult, adPending>>

VARIABLES
    nestSt,     \* the task that polls the Core in another executor:
                \* "waiting", "polling" (inside Future::poll) or "done"
    nestWake,   \* that task has a wake pending in the other executor
    nestTurns,  \* how many turns the poll in progress has made
    nestRet     \* what the last poll of the Core or RunFuture returned

nestVars == <<nestSt, nestWake, nestTurns, nestRet>>

VARIABLES
    qlock,      \* who holds the Mutex of the IndexQueue, "-" for nobody
    tlock,      \* per ticket, who holds the Mutex of its TicketInner
    thr         \* per thread: the call it is in, where, and on which ticket

lockVars == <<qlock, tlock, thr>>

vars == <<coreVars, cellVars, testVars, handleVars, adVars, nestVars,
          lockVars>>

\* ------------------------------------------------------------------------
\* Sequences helpers
\* ------------------------------------------------------------------------
Range(s) == {s[i] : i \in 1..Len(s)}

Count(s, x) == Cardinality({i \in 1..Len(s) : s[i] = x})

Pos(s, x) == CHOOSE i \in 1..Len(s) : s[i] = x

Without(s, x) == SelectSeq(s, LAMBDA y : y # x)

\* ------------------------------------------------------------------------
\* SpawnId
\* ------------------------------------------------------------------------
MainId == 0

AuxId(aux_index) == aux_index + 1

IsMain(id) == id = MainId

ToAux(id) == id - 1

\* ------------------------------------------------------------------------
\* IndexQueue (queue of unique indices)
\* ------------------------------------------------------------------------
\* variant: a plain queue, no membership test
push_back_dup(q, i) == Append(q, i)

\* push_back returns without queueing an index that is already queued

push_back(q, i) == IF i \in Range(q) THEN q ELSE Append(q, i)

remove(q, i) == Without(q, i)

\* ------------------------------------------------------------------------
\* Ticket
\* ------------------------------------------------------------------------
TicketInner(id) == [id |-> id, queue |-> TRUE]

\* Ticket::unpark on ticket t, as a function of the queue
\* variant: the trigger does not reach the queue
unpark_dropped(q, t) == q

unpark(q, t) == IF tickets[t].queue THEN push_back(q, tickets[t].id) ELSE q

\* Ticket::deactivate on ticket t, as a function of the queue
deactivate(q, t) == IF tickets[t].queue THEN remove(q, tickets[t].id) ELSE q

\* ------------------------------------------------------------------------
\* Arena<Option<Spawned>>
\* ------------------------------------------------------------------------
Vacant == [tag |-> "vacant", ticket |-> 0]

\* variant: the polled task's slot is given up for the time of its poll
NoneSlotVacated == [tag |-> "vacant", ticket |-> 0]

NoneSlot == [tag |-> "none", ticket |-> 0]

\* Some(Spawned { spawn, ticket }); the ticket number names the task too
SomeSlot(t) == [tag |-> "some", ticket |-> t]

\* indices are 0-based as in the source; slots[i + 1] is slot i
SlotAt(i) == IF i + 1 \in 1..Len(slots) THEN slots[i + 1] ELSE Vacant

ArenaLen == Cardinality({i \in 1..Len(slots) : slots[i].tag # "vacant"})

ArenaIsEmpty == ArenaLen = 0

\* Arena::insert: the index the next insert will use
NextIndex == IF free = <<>> THEN Len(slots) ELSE Head(free)

ArenaInsert(s, v) ==
    IF free = <<>> THEN Append(s, v) ELSE [s EXCEPT ![Head(free) + 1] = v]

FreeAfterInsert == IF free = <<>> THEN free ELSE Tail(free)

\* ------------------------------------------------------------------------
\* Tasks supplied by the caller: how their poll may answer
\* ------------------------------------------------------------------------
\* what poll_future may return for a spawned task (Error = Void)
AuxOutcomes == {"NotReady", "Ready"}

\* what poll_future may return for the main task
MainOutcomes == {"NotReady", "Ready", "Err"}

\* the value the main task with ticket t resolves or fails with
ValueOf(t) == t

NoRun == [tag |-> "none", ticket |-> 0, polled |-> FALSE, done |-> FALSE]

\* RunFuture { core, spawned: Spawned { spawn, ticket } }
NewRun(t) == [tag |-> "run", ticket |-> t, polled |-> FALSE, done |-> FALSE]

NoPoll == [tag |-> "none", id |-> 0, ticket |-> 0, woken |-> 0]

\* a poll_future(ticket) call that has been entered and has not returned
\* woken counts, up to WokenCap, the triggers of its ticket since the dequeue
Polling(tag, id, t) == [tag |-> tag, id |-> id, ticket |-> t, woken |-> 0]

NoRet == [op |-> "-", res |-> "-", val |-> 0]

Ret(op, res, val) == [op |-> op, res |-> res, val |-> val]

\* ------------------------------------------------------------------------
\* Initial state: Core::default()
\* ------------------------------------------------------------------------
CoreInit ==
    /\ queue = <<>>
    /\ tickets = <<>>
    /\ held = {}
    /\ slots = <<>>
    /\ free = <<>>
    /\ run = NoRun
    /\ polling = NoPoll
    /\ mode = "idle"
    /\ ret = NoRet
    /\ coreAlive = TRUE
    /\ abandoned = FALSE

\* ------------------------------------------------------------------------
\* Inner::new_ticket: build the ticket and trigger it once
\* ------------------------------------------------------------------------
\* variant: the ticket is built but not triggered
new_ticket_silent(q, id) == q

new_ticket(q, id) == push_back(q, id)

\* the drive thread is between calls
Idle == mode = "idle" /\ polling = NoPoll

\* ------------------------------------------------------------------------
\* Handle::spawn
\* ------------------------------------------------------------------------
\* on a live Core; also reentrantly from inside a poll
Spawn ==
    /\ coreAlive
    /\ mode = "idle" \/ polling # NoPoll
    /\ Len(tickets) < MaxTickets
    /\ free # <<>> \/ Len(slots) < MaxSlots
    /\ LET aux == NextIndex
           t == Len(tickets) + 1
       IN /\ tickets' = Append(tickets, TicketInner(AuxId(aux)))
          /\ queue' = new_ticket(queue, AuxId(aux))
          /\ slots' = ArenaInsert(slots, SomeSlot(t))
          /\ free' = FreeAfterInsert
    /\ ret' = IF polling = NoPoll THEN NoRet ELSE ret
    /\ UNCHANGED <<held, run, polling, mode, coreAlive, abandoned>>

\* through a Handle whose Core is gone: upgrade() fails, return
\* variant: the task is stored and queued without the upgrade() test
SpawnUnchecked ==
    /\ ~coreAlive
    /\ Len(tickets) < MaxTickets
    /\ free # <<>> \/ Len(slots) < MaxSlots
    /\ tickets' = Append(tickets, TicketInner(AuxId(NextIndex)))
    /\ queue' = new_ticket(queue, AuxId(NextIndex))
    /\ slots' = ArenaInsert(slots, SomeSlot(Len(tickets) + 1))
    /\ free' = FreeAfterInsert
    /\ ret' = NoRet
    /\ UNCHANGED <<held, run, polling, mode, coreAlive, abandoned>>

SpawnDead ==
    /\ ~coreAlive
    /\ ret' = NoRet
    /\ UNCHANGED <<queue, tickets, held, slots, free, run, polling, mode,
                   coreAlive, abandoned>>

\* ------------------------------------------------------------------------
\* Core::run_future, Core::run, RunFuture::run, drops
\* ------------------------------------------------------------------------
run_future(q) == new_ticket(remove(q, MainId), MainId)

RunFuture ==
    /\ coreAlive /\ Idle /\ run = NoRun
    /\ Len(tickets) < MaxTickets
    /\ tickets' = Append(tickets, TicketInner(MainId))
    /\ queue' = run_future(queue)
    /\ run' = NewRun(Len(tickets) + 1)
    /\ ret' = NoRet
    /\ UNCHANGED <<held, slots, free, polling, mode, coreAlive, abandoned>>

\* Core::run(f) is run_future(f).run(): enter the loop at once
CoreRun ==
    /\ coreAlive /\ Idle /\ run = NoRun
    /\ Len(tickets) < MaxTickets
    /\ tickets' = Append(tickets, TicketInner(MainId))
    /\ queue' = run_future(queue)
    /\ run' = NewRun(Len(tickets) + 1)
    /\ mode' = "core_run"
    /\ ret' = NoRet
    /\ UNCHANGED <<held, slots, free, polling, coreAlive, abandoned>>

\* RunFuture::run on a run-object made by run_future
RunFutureRun ==
    /\ Idle /\ run # NoRun /\ ~run.done
    /\ mode' = "rf_run"
    /\ ret' = NoRet
    /\ UNCHANGED <<queue, tickets, held, slots, free, run, polling,
                   coreAlive, abandoned>>

\* the RunFuture goes out of scope; its ticket is not deactivated
DropRun ==
    /\ Idle /\ run # NoRun
    /\ run' = NoRun
    /\ abandoned' = (abandoned \/ ~run.done)
    /\ ret' = NoRet
    /\ UNCHANGED <<queue, tickets, held, slots, free, polling, mode,
                   coreAlive>>

\* the Core goes out of scope: Inner and every held spawn are dropped;
\* tickets held elsewhere keep the queue alive
DropCore ==
    /\ coreAlive /\ Idle /\ run = NoRun
    /\ coreAlive' = FALSE
    /\ slots' = <<>>
    /\ free' = <<>>
    /\ ret' = NoRet
    /\ UNCHANGED <<queue, tickets, held, run, polling, mode, abandoned>>

\* ------------------------------------------------------------------------
\* Core::turn_with
\* ------------------------------------------------------------------------
\* Arena::remove(aux) returns an Option: a vacant or out-of-range slot is
\* left alone (vec_arena; the result is discarded at both call sites)
ArenaRemove(s, aux) ==
    IF SlotAt(aux).tag = "vacant" THEN s ELSE [s EXCEPT ![aux + 1] = Vacant]

FreeAfterRemove(aux) ==
    IF SlotAt(aux).tag = "vacant" THEN free ELSE <<aux>> \o free

\* what a loop around turn does with the value turn returned:
\* RunFuture::run returns on Ready or on an error and spins otherwise
\* variant: the loop also waits for the task store to drain
LoopExitWhenEmpty(res) ==
    mode # "idle" /\ res \in {"Ready", "Err"} /\ ArenaIsEmpty

LoopExit(res) == mode # "idle" /\ res \in {"Ready", "Err"}

ModeAfter(res) == IF LoopExit(res) THEN "idle" ELSE mode

RetAfter(op, res, val) ==
    IF LoopExit(res)
    THEN Ret("run", IF res = "Ready" THEN "Ok" ELSE "Err", val)
    ELSE Ret(op, res, val)

\* the empty-queue answer of turn_with
\* variant: no idle-core completion
IdleAnswerNever(hasMain) == "None"

IdleAnswer(hasMain) ==
    IF ArenaIsEmpty /\ ~hasMain THEN "Ready" ELSE "None"

\* turn_with up to the point where it returns or enters a poll.
\* hasMain: main is Ok(&mut Spawned); op names the public entry point.
TurnWith(op, hasMain) ==
    /\ coreAlive /\ polling = NoPoll
    /\ IF queue = <<>>
       THEN /\ ret' = Ret(op, IdleAnswer(hasMain), 0)
            /\ UNCHANGED <<queue, tickets, held, slots, free, run, polling,
                           mode, coreAlive, abandoned>>
       ELSE LET index == Head(queue)
                aux == ToAux(index)
            IN /\ queue' = Tail(queue)
               /\ IF IsMain(index)
                  THEN IF hasMain
                       THEN /\ polling' = Polling("main", index, run.ticket)
                            /\ UNCHANGED <<slots, free, ret>>
                       ELSE /\ ret' = Ret(op, "NotReady", 0)
                            /\ UNCHANGED <<slots, free, polling>>
                  ELSE IF SlotAt(aux).tag = "some"
                       THEN /\ slots' = [slots EXCEPT ![aux + 1] = NoneSlot]
                            /\ polling' = Polling("aux", index,
                                                  SlotAt(aux).ticket)
                            /\ UNCHANGED <<free, ret>>
                       ELSE /\ slots' = ArenaRemove(slots, aux)
                            /\ free' = FreeAfterRemove(aux)
                            /\ ret' = Ret(op, "NotReady", 0)
                            /\ UNCHANGED polling
               /\ UNCHANGED <<tickets, held, run, mode, coreAlive, abandoned>>

\* Core::turn: no main spawn
CoreTurn ==
    /\ Idle /\ run = NoRun
    /\ TurnWith("turn", FALSE)

\* RunFuture::turn, called by the user or by the loop of RunFuture::run
RunTurn ==
    /\ run # NoRun /\ ~run.done
    /\ TurnWith("rturn", TRUE)

\* if let Ok(Async::Ready(_)) = poll { ticket.deactivate() }
\* variant: the ticket is deactivated after every poll
QueueAfterPollAlways(outcome) == deactivate(queue, polling.ticket)

QueueAfterPoll(outcome) ==
    IF outcome = "Ready" THEN deactivate(queue, polling.ticket) ELSE queue

\* the rest of turn_with once poll_future has returned outcome
PollEnd(outcome) ==
    /\ polling # NoPoll
    /\ IF polling.tag = "main"
       THEN /\ outcome \in MainOutcomes
            /\ queue' = QueueAfterPoll(outcome)
            /\ run' = IF mode = "core_run" /\ LoopExit(outcome)
                      THEN NoRun
                      ELSE [run EXCEPT !.polled = TRUE,
                                       !.done = outcome # "NotReady"]
            /\ ret' = RetAfter("rturn", outcome,
                               IF outcome = "NotReady" THEN 0
                               ELSE ValueOf(run.ticket))
            /\ mode' = ModeAfter(outcome)
            /\ UNCHANGED <<slots, free>>
       ELSE /\ outcome \in AuxOutcomes
            /\ IF outcome = "Ready"
               THEN /\ queue' = QueueAfterPoll(outcome)
                    /\ slots' = ArenaRemove(slots, ToAux(polling.id))
                    /\ free' = FreeAfterRemove(ToAux(polling.id))
               ELSE /\ slots' = [slots EXCEPT ![ToAux(polling.id) + 1] =
                                     SomeSlot(polling.ticket)]
                    /\ queue' = QueueAfterPoll(outcome)
                    /\ UNCHANGED free
            /\ ret' = Ret(IF run = NoRun THEN "turn" ELSE "rturn",
                          "NotReady", 0)
            /\ UNCHANGED <<run, mode>>
    /\ polling' = NoPoll
    /\ UNCHANGED <<tickets, held, coreAlive, abandoned>>

\* ------------------------------------------------------------------------
\* Wakes
\* ------------------------------------------------------------------------
\* inside a poll: task::park() clones the ticket and hands it to a waker
Park ==
    /\ polling # NoPoll
    /\ polling.ticket \notin held
    /\ held' = held \cup {polling.ticket}
    /\ UNCHANGED <<queue, tickets, slots, free, run, polling, mode, ret,
                   coreAlive, abandoned>>

\* Ticket::unpark by whoever holds the ticket: another thread, another
\* task, or the polled task itself
Unpark(t) ==
    /\ t \in held
    /\ queue' = unpark(queue, t)
    /\ polling' = IF polling # NoPoll /\ polling.ticket = t
                  THEN [polling EXCEPT !.woken =
                           IF @ < WokenCap THEN @ + 1 ELSE @]
                  ELSE polling
    /\ UNCHANGED <<tickets, held, slots, free, run, mode, ret, coreAlive,
                   abandoned>>

\* ------------------------------------------------------------------------
\* drop_off: the one-shot result cell
\* ------------------------------------------------------------------------
\* what a cell may carry
CellValues == {1, 2, 3, 4}

\* drop_off::new()
CellInit ==
    /\ cellVal = 0
    /\ senderSt = "live"
    /\ receiverSt = "live"
    /\ cellWrites = 0
    /\ cellLog = <<>>

\* Weak::upgrade in send succeeds while the Receiver's Rc is alive
\* variant: upgrade is not checked
SendResultBlind(rcv) == "Ok"

SendResult(rcv) == IF rcv = "live" THEN "Ok" ELSE "Err"

\* send takes self by value: the Sender is gone afterwards
\* variant: send by reference
SenderAfterSendKept == "live"

SenderAfterSend == "sent"

\* Rc::weak_count(&self.0): the Sender is the only Weak
WeakCount(snd) == IF snd = "live" THEN 1 ELSE 0

\* the match of Receiver::take on the value taken out of the cell
\* variant: the weak count is not looked at
TakeResultRetry(val, snd) ==
    IF val = 0 THEN "ErrSome" ELSE "Ok"

TakeResult(val, snd) ==
    IF val = 0
    THEN IF WeakCount(snd) = 0 THEN "ErrNone" ELSE "ErrSome"
    ELSE "Ok"

\* Sender::send(self, value)
CellSend(v) ==
    /\ senderSt = "live"
    /\ LET res == SendResult(receiverSt)
       IN /\ cellVal' = IF res = "Ok" THEN v ELSE cellVal
          /\ cellWrites' = IF res = "Ok" THEN cellWrites + 1 ELSE cellWrites
          /\ cellLog' = Append(cellLog, Ret("send", res, v))
    /\ senderSt' = SenderAfterSend
    /\ UNCHANGED receiverSt

\* Receiver::take(self); Err(Some(self)) hands the Receiver back
CellTake ==
    /\ receiverSt = "live"
    /\ Len(SelectSeq(cellLog, LAMBDA e : e.op = "take")) < MaxTakes
    /\ LET res == TakeResult(cellVal, senderSt)
       IN /\ cellLog' = Append(cellLog, Ret("take", res, cellVal))
          /\ receiverSt' = CASE res = "Ok" -> "taken"
                              [] res = "ErrNone" -> "gone"
                              [] OTHER -> "live"
    /\ cellVal' = 0
    /\ UNCHANGED <<senderSt, cellWrites>>

\* the Sender goes out of scope unused
DropSender ==
    /\ senderSt = "live"
    /\ senderSt' = "dropped"
    /\ cellLog' = Append(cellLog, Ret("drop_sender", "-", 0))
    /\ UNCHANGED <<cellVal, receiverSt, cellWrites>>

\* the Receiver goes out of scope: the cell and its content go with it
DropReceiver ==
    /\ receiverSt = "live"
    /\ receiverSt' = "dropped"
    /\ cellVal' = 0
    /\ cellLog' = Append(cellLog, Ret("drop_receiver", "-", 0))
    /\ UNCHANGED <<senderSt, cellWrites>>

\* ------------------------------------------------------------------------
\* tests/simple.rs: two tasks, two mailboxes, one thread per message
\* ------------------------------------------------------------------------
Messages == {"hello", "hi", "goodbye", "bye"}

\* the inbox each send() call of the test is given
Target(m) == IF m \in {"hello", "goodbye"} THEN "aux" ELSE "main"

\* the message each task asserts at each receive
Expected(task, k) ==
    IF task = "aux" THEN <<"hello", "goodbye">>[k] ELSE <<"hi", "bye">>[k]

\* the send() each task makes once the assert has passed
Reply(task, k) ==
    IF task = "aux" THEN <<"hi", "bye">>[k] ELSE <<"goodbye", "-">>[k]

LastStage == 2

\* Mutex<Inbox>: lock names the thread inside the critical section
EmptyInbox == [messages |-> <<>>, waiting |-> <<>>, lock |-> "-"]

TestInit ==
    /\ inbox = [b \in {"main", "aux"} |-> EmptyInbox]
    /\ threads = [m \in Messages |-> "unborn"]
    /\ stage = [b \in {"main", "aux"} |-> 1]
    /\ got = [b \in {"main", "aux"} |-> <<>>]
    /\ pollOut = "-"

\* handle.spawn(receive(aux_inbox).and_then(...))
TestSpawn ==
    /\ tickets = <<>>
    /\ Spawn
    /\ UNCHANGED testVars

\* core.run(send(aux_inbox, "hello").and_then(...)): the argument is
\* built first, so the "hello" thread is started before run_future
TestRun ==
    /\ tickets # <<>>
    /\ CoreRun
    /\ threads' = [threads EXCEPT !["hello"] = "sleeping"]
    /\ UNCHANGED <<inbox, stage, got, pollOut>>

\* one iteration of the loop of RunFuture::run
TestTurn ==
    /\ mode = "core_run"
    /\ RunTurn
    /\ UNCHANGED testVars

\* the closure of receive(), run under the inbox lock by the polled task
TestReceive ==
    /\ polling # NoPoll /\ pollOut = "-"
    /\ inbox[polling.tag].lock = "-"
    /\ LET me == polling.tag
           k == stage[me]
           box == inbox[me]
       IN IF box.messages = <<>>
          THEN /\ inbox' = [inbox EXCEPT ![me].waiting =
                                Append(@, polling.ticket)]
               /\ held' = held \cup {polling.ticket}
               /\ pollOut' = "NotReady"
               /\ UNCHANGED <<threads, stage, got>>
          ELSE LET m == Head(box.messages)
               IN /\ inbox' = [inbox EXCEPT ![me].messages = Tail(@)]
                  /\ got' = [got EXCEPT ![me] = Append(@, m)]
                  /\ held' = held
                  /\ IF m # Expected(me, k)
                     THEN /\ pollOut' = "Panic"
                          /\ UNCHANGED <<threads, stage>>
                     ELSE /\ threads' =
                               IF Reply(me, k) \in Messages
                               THEN [threads EXCEPT ![Reply(me, k)] =
                                        "sleeping"]
                               ELSE threads
                          /\ stage' = [stage EXCEPT ![me] = k + 1]
                          /\ pollOut' = IF k = LastStage THEN "Ready"
                                        ELSE "-"
    /\ UNCHANGED <<queue, tickets, slots, free, run, polling, mode, ret,
                   coreAlive, abandoned>>

\* the poll returns to turn_with
TestPollEnd ==
    /\ pollOut \in {"NotReady", "Ready"}
    /\ PollEnd(pollOut)
    /\ pollOut' = "-"
    /\ UNCHANGED <<inbox, threads, stage, got>>

\* the thread of send(inbox, m), after its sleep: lock the inbox, push
DeliverPush(m) ==
    /\ threads[m] = "sleeping"
    /\ inbox[Target(m)].lock = "-"
    /\ threads' = [threads EXCEPT ![m] = "draining"]
    /\ inbox' = [inbox EXCEPT ![Target(m)].messages = Append(@, m),
                              ![Target(m)].lock = m]
    /\ UNCHANGED <<queue, tickets, held, slots, free, run, polling, mode,
                   ret, coreAlive, abandoned, stage, got, pollOut>>

\* for task in inbox.waiting.drain(..) { task.unpark() }: one iteration
DeliverUnpark(m) ==
    /\ threads[m] = "draining"
    /\ inbox[Target(m)].waiting # <<>>
    /\ queue' = unpark(queue, Head(inbox[Target(m)].waiting))
    /\ inbox' = [inbox EXCEPT ![Target(m)].waiting = Tail(@)]
    /\ UNCHANGED <<tickets, held, slots, free, run, polling, mode, ret,
                   coreAlive, abandoned, threads, stage, got, pollOut>>

\* the drain is over: the guard is dropped and the thread ends
DeliverDone(m) ==
    /\ threads[m] = "draining"
    /\ inbox[Target(m)].waiting = <<>>
    /\ threads' = [threads EXCEPT ![m] = "done"]
    /\ inbox' = [inbox EXCEPT ![Target(m)].lock = "-"]
    /\ UNCHANGED <<queue, tickets, held, slots, free, run, polling, mode,
                   ret, coreAlive, abandoned, stage, got, pollOut>>

Deliver(m) == DeliverPush(m) \/ DeliverUnpark(m) \/ DeliverDone(m)

\* ------------------------------------------------------------------------
\* Handle: a weak reference to the Core's Inner
\* ------------------------------------------------------------------------
HandleInit ==
    /\ handles = 0
    /\ discarded = FALSE

\* Core::handle: Handle(Rc::downgrade(&self.0))
CoreHandle ==
    /\ coreAlive
    /\ handles < MaxHandles
    /\ handles' = handles + 1
    /\ UNCHANGED <<coreVars, discarded>>

\* #[derive(Clone)]: one more weak reference, whether or not the Core lives
HandleClone ==
    /\ handles > 0
    /\ handles < MaxHandles
    /\ handles' = handles + 1
    /\ UNCHANGED <<coreVars, discarded>>

\* a Handle goes out of scope: one weak reference less
HandleDrop ==
    /\ handles > 0
    /\ handles' = handles - 1
    /\ UNCHANGED <<coreVars, discarded>>

\* Handle::spawn when upgrade() succeeds
HandleSpawn ==
    /\ handles > 0
    /\ Spawn
    /\ UNCHANGED handleVars

\* Handle::spawn when upgrade() fails: f is dropped at the return
HandleSpawnDead ==
    /\ handles > 0
    /\ SpawnDead
    /\ discarded' = TRUE
    /\ UNCHANGED handles

\* ------------------------------------------------------------------------
\* spawn_future: SpawnFuture (the adapter) and SpawnedFuture (the wrapper)
\* ------------------------------------------------------------------------
\* a cell carries a Result<F::Item, F::Error>: these values stand for
\* Ok(item), the other CellValues for Err(err)
OkValues == {1, 2}

\* SpawnFuture::new: State::Starting; the pair of the cell is the one
\* drop_off::new() builds in the first poll
AdapterInit ==
    /\ adState = "Starting"
    /\ adTask = 0
    /\ adOut = "-"
    /\ adRet = NoRet
    /\ adResult = 0
    /\ adPending = 0

\* the arms of match receiver.take() in SpawnFuture::poll
\* variant: an error of the wrapped future is delivered as a value
WaitingAnswerLenient(res, val) ==
    CASE res = "Ok" -> "Ready"
      [] res = "ErrSome" -> "NotReady"
      [] OTHER -> "Panic"

WaitingAnswer(res, val) ==
    CASE res = "Ok" /\ val \in OkValues -> "Ready"
      [] res = "Ok" -> "Err"
      [] res = "ErrSome" -> "NotReady"
      [] OTHER -> "Panic"

\* mem::replace(&mut self.0, State::Invalid), and self.0 = State::Waiting
\* in the spurious wake-up arm only
\* variant: every arm puts Waiting back
StateAfterTakeRestored(res) == "Waiting"

StateAfterTake(res) == IF res = "ErrSome" THEN "Waiting" ELSE "Invalid"

\* SpawnFuture::poll in Starting, but for the call of handle.spawn;
\* task is what task::park() returns in that poll
PollStarting(task) ==
    /\ adState = "Starting"
    /\ adState' = "Waiting"
    /\ adTask' = task
    /\ adRet' = Ret("poll", "NotReady", 0)
    /\ UNCHANGED <<adResult, adPending>>

\* SpawnFuture::poll in Waiting
PollWaiting ==
    /\ adState = "Waiting"
    /\ LET res == TakeResult(cellVal, senderSt)
       IN /\ adState' = StateAfterTake(res)
          /\ adRet' = Ret("poll", WaitingAnswer(res, cellVal), cellVal)
          /\ receiverSt' = CASE res = "Ok" -> "taken"
                              [] res = "ErrNone" -> "gone"
                              [] OTHER -> "live"
    /\ cellVal' = 0
    /\ UNCHANGED <<senderSt, cellWrites, cellLog, adTask, adResult,
                   adPending>>

\* the adapter is the main task of Core::run on the Core of its Handle
AdapterPolled == polling.tag = "main" /\ mode = "core_run" /\ adOut = "-"

MainPollStarting ==
    /\ AdapterPolled
    /\ PollStarting(polling.ticket)
    /\ Spawn
    /\ adOut' = adRet'.res
    /\ UNCHANGED cellVars

MainPollWaiting ==
    /\ AdapterPolled
    /\ PollWaiting
    /\ adOut' = adRet'.res
    /\ UNCHANGED coreVars

\* the adapter is polled by a task of another executor, between two calls
\* on the Core of its Handle, which may be gone
OtherPollStarting ==
    /\ Idle
    /\ PollStarting(0)
    /\ IF coreAlive
       THEN Spawn /\ UNCHANGED senderSt
       ELSE SpawnDead /\ senderSt' = "dropped"
    /\ UNCHANGED <<cellVal, receiverSt, cellWrites, cellLog, adOut>>

OtherPollWaiting ==
    /\ Idle
    /\ PollWaiting
    /\ UNCHANGED <<coreVars, adOut>>

\* SpawnedFuture::poll: the wrapped future answers NotReady, having parked
WrapperPending ==
    /\ polling.tag = "aux" /\ adOut = "-"
    /\ adPending < MaxPending
    /\ adPending' = adPending + 1
    /\ held' = held \cup {polling.ticket}
    /\ adOut' = "NotReady"
    /\ UNCHANGED <<queue, tickets, slots, free, run, polling, mode, ret,
                   coreAlive, abandoned, cellVars, adState, adTask, adRet,
                   adResult>>

\* SpawnedFuture::poll: the wrapped future resolves with v; send(result),
\* then self.task.unpark()
WrapperResolve(v) ==
    /\ polling.tag = "aux" /\ adOut = "-"
    /\ senderSt = "live"
    /\ adResult' = v
    /\ LET res == SendResult(receiverSt)
       IN /\ cellVal' = IF res = "Ok" THEN v ELSE cellVal
          /\ cellWrites' = IF res = "Ok" THEN cellWrites + 1 ELSE cellWrites
    /\ senderSt' = SenderAfterSend
    /\ queue' = IF adTask = 0 THEN queue ELSE unpark(queue, adTask)
    /\ adOut' = "Ready"
    /\ UNCHANGED <<tickets, held, slots, free, run, polling, mode, ret,
                   coreAlive, abandoned, receiverSt, cellLog, adState,
                   adTask, adRet, adPending>>

\* the poll of the adapter or of the wrapper returns into turn_with
AdapterPollEnd ==
    /\ adOut \in MainOutcomes
    /\ PollEnd(adOut)
    /\ adOut' = "-"
    /\ UNCHANGED <<cellVars, adState, adTask, adRet, adResult, adPending>>

\* the Core goes out of scope with the wrapper, and its Sender, in a slot
CollectDropCore ==
    /\ DropCore
    /\ senderSt' = IF adState = "Waiting" /\ senderSt = "live"
                   THEN "dropped" ELSE senderSt
    /\ UNCHANGED <<cellVal, receiverSt, cellWrites, cellLog, adVars>>

\* ------------------------------------------------------------------------
\* impl Future for Core and for RunFuture: the Core as a task of another
\* executor, which polls a task that has a wake pending
\* ------------------------------------------------------------------------
\* a task is scheduled when it is spawned
NestedInit ==
    /\ nestSt = "waiting"
    /\ nestWake = TRUE
    /\ nestTurns = 0
    /\ nestRet = "-"

\* yield_turn: status.unwrap_or(Ok(Async::NotReady))
YieldResult(status) == IF status = "None" THEN "NotReady" ELSE status

\* yield_turn: if let Ok(Async::NotReady) = result { park().unpark() }
\* variant: the test is made on the status, before unwrap_or
YieldWakesStatus(status) == status = "NotReady"

YieldWakes(status) == YieldResult(status) = "NotReady"

\* the other executor takes the pending wake and calls poll
NestedPollBegin ==
    /\ nestSt = "waiting" /\ nestWake
    /\ Idle
    /\ nestSt' = "polling"
    /\ nestWake' = FALSE
    /\ nestTurns' = 0
    /\ UNCHANGED <<coreVars, nestRet>>

\* poll calls self.turn()
NestedTurn ==
    /\ nestSt = "polling" /\ nestTurns = 0
    /\ CoreTurn \/ RunTurn
    /\ nestTurns' = nestTurns + 1
    /\ UNCHANGED <<nestSt, nestWake, nestRet>>

\* turn has returned: yield_turn, and poll returns what it returns
NestedYield ==
    /\ nestSt = "polling" /\ nestTurns > 0
    /\ polling = NoPoll
    /\ nestWake' = YieldWakes(ret.res)
    /\ nestRet' = YieldResult(ret.res)
    /\ nestSt' = IF YieldResult(ret.res) = "NotReady"
                 THEN "waiting" ELSE "done"
    /\ UNCHANGED <<coreVars, nestTurns>>

\* core.run_future(f) is what gets spawned on the other executor
NestedRunFuture ==
    /\ nestSt = "waiting" /\ nestRet = "-"
    /\ RunFuture
    /\ UNCHANGED nestVars

\* ------------------------------------------------------------------------
\* The two kinds of Mutex: one around the IndexQueue, one per TicketInner.
\* The drive thread spawns, calls run_future, dequeues and deactivates;
\* the other threads trigger tickets.  Each lock() and each end of a
\* guard's scope is a step.
\* ------------------------------------------------------------------------
LockThreads == {"drive", "w1", "w2"}

NoCall == [op |-> "-", pc |-> "idle", t |-> 0]

LockInit ==
    /\ qlock = "-"
    /\ tlock = <<>>
    /\ thr = [th \in LockThreads |-> NoCall]

\* the queue guard is a temporary of the one statement that uses the queue
\* variant: run_future binds its guard, which then lives to the block's end
QueueGuardBound(op, pc) ==
    \/ pc \in {"in_q", "in_q0"}
    \/ op = "run_future" /\ pc \in {"want_t", "want_q", "after_q"}

QueueGuardLive(op, pc) == pc \in {"in_q", "in_q0"}

\* let inner = self.0.lock().unwrap() lives to the end of unpark and of
\* deactivate
\* variant: the ticket guard is a temporary, gone before queue.lock()
TicketGuardTemp(pc) == FALSE

TicketGuardLive(pc) == pc \in {"want_q", "in_q", "after_q"}

\* the locks after thread th has moved to pc inside op on ticket t
QlockAfter(th, op, pc) ==
    IF QueueGuardLive(op, pc) THEN th ELSE IF qlock = th THEN "-" ELSE qlock

TlockAfter(tl, th, pc, t) ==
    [i \in 1..Len(tl) |->
        IF i = t /\ TicketGuardLive(pc) THEN th
        ELSE IF tl[i] = th THEN "-" ELSE tl[i]]

\* a ticket other threads can hold: new_ticket has returned it
Published(t) ==
    /\ t \in 1..Len(tickets)
    /\ ~(thr["drive"].op \in {"spawn", "run_future"} /\ thr["drive"].t = t)

\* a thread enters Ticket::unpark or, the drive thread, Ticket::deactivate
LockCallTicket(th, op, t) ==
    /\ thr[th].pc = "idle"
    /\ Published(t)
    /\ IF th = "drive" THEN op = "deactivate" ELSE op = "unpark"
    /\ thr' = [thr EXCEPT ![th] = [op |-> op, pc |-> "want_t", t |-> t]]
    /\ UNCHANGED <<queue, tickets, qlock, tlock>>

\* the drive thread enters turn_with or run_future: queue.lock() first
LockCallQueue(op) ==
    /\ thr["drive"].pc = "idle"
    /\ op \in {"turn", "run_future"}
    /\ op = "run_future" => Len(tickets) < MaxLockTickets
    /\ thr' = [thr EXCEPT !["drive"] = [op |-> op, pc |-> "want_q0", t |-> 0]]
    /\ UNCHANGED <<queue, tickets, qlock, tlock>>

\* Inner::new_ticket up to ticket.unpark(): the ticket is built unlocked
LockNewTicket(id) ==
    /\ tickets' = Append(tickets, TicketInner(id))
    /\ thr' = [thr EXCEPT !["drive"].pc = "want_t",
                          !["drive"].t = Len(tickets) + 1]
    /\ tlock' = Append(TlockAfter(tlock, "drive", "want_t", 0), "-")
    /\ qlock' = QlockAfter("drive", thr["drive"].op, "want_t")

\* Handle::spawn: new_ticket(SpawnId::aux(aux)), aux being a slot that no
\* ticket built so far was given
LockCallSpawn ==
    /\ thr["drive"].pc = "idle"
    /\ Len(tickets) < MaxLockTickets
    /\ LET aux == Cardinality({i \in 1..Len(tickets) :
                                  ~IsMain(tickets[i].id)})
       IN tickets' = Append(tickets, TicketInner(AuxId(aux)))
    /\ tlock' = Append(tlock, "-")
    /\ thr' = [thr EXCEPT !["drive"] =
                  [op |-> "spawn", pc |-> "want_t", t |-> Len(tickets) + 1]]
    /\ UNCHANGED <<queue, qlock>>

\* self.0.lock() returns
LockTicket(th) ==
    /\ thr[th].pc = "want_t"
    /\ tlock[thr[th].t] = "-"
    /\ thr' = [thr EXCEPT ![th].pc = "want_q"]
    /\ tlock' = TlockAfter(tlock, th, "want_q", thr[th].t)
    /\ qlock' = QlockAfter(th, thr[th].op, "want_q")
    /\ UNCHANGED <<queue, tickets>>

\* queue.lock() returns
LockQueue(th) ==
    /\ thr[th].pc \in {"want_q", "want_q0"}
    /\ qlock = "-"
    /\ LET pc == IF thr[th].pc = "want_q" THEN "in_q" ELSE "in_q0"
       IN /\ thr' = [thr EXCEPT ![th].pc = pc]
          /\ qlock' = QlockAfter(th, thr[th].op, pc)
          /\ tlock' = TlockAfter(tlock, th, pc, thr[th].t)
    /\ UNCHANGED <<queue, tickets>>

\* push_back or remove under both guards; the statement ends
LockedQueueCall(th) ==
    /\ thr[th].pc = "in_q"
    /\ queue' = IF thr[th].op = "deactivate"
                THEN deactivate(queue, thr[th].t)
                ELSE unpark(queue, thr[th].t)
    /\ thr' = [thr EXCEPT ![th].pc = "after_q"]
    /\ qlock' = QlockAfter(th, thr[th].op, "after_q")
    /\ tlock' = TlockAfter(tlock, th, "after_q", thr[th].t)
    /\ UNCHANGED tickets

\* pop_front in turn_with; the statement ends and turn_with goes on
\* without a lock
LockedPop ==
    /\ thr["drive"].pc = "in_q0" /\ thr["drive"].op = "turn"
    /\ queue' = IF queue = <<>> THEN queue ELSE Tail(queue)
    /\ thr' = [thr EXCEPT !["drive"] = NoCall]
    /\ qlock' = QlockAfter("drive", "turn", "idle")
    /\ UNCHANGED <<tickets, tlock>>

\* remove(main) in run_future; the statement ends; new_ticket(id)
LockedRemoveMain ==
    /\ thr["drive"].pc = "in_q0" /\ thr["drive"].op = "run_future"
    /\ queue' = remove(queue, MainId)
    /\ LockNewTicket(MainId)

\* unpark or deactivate returns: the ticket guard goes out of scope
LockReturn(th) ==
    /\ thr[th].pc = "after_q"
    /\ thr' = [thr EXCEPT ![th] = NoCall]
    /\ qlock' = QlockAfter(th, thr[th].op, "idle")
    /\ tlock' = TlockAfter(tlock, th, "idle", thr[th].t)
    /\ UNCHANGED <<queue, tickets>>

\* the steps in which a lock() call returns, and the other steps of a call
LockGranted(th) == LockTicket(th) \/ LockQueue(th)

LockRuns(th) ==
    \/ LockedQueueCall(th)
    \/ LockReturn(th)
    \/ th = "drive" /\ (LockedPop \/ LockedRemoveMain)

\* ------------------------------------------------------------------------
\* Specifications
\* ------------------------------------------------------------------------
Init ==
    /\ CoreInit /\ CellInit /\ TestInit /\ HandleInit /\ AdapterInit
    /\ NestedInit /\ LockInit

\* what a specification of one part leaves alone: everything but the
\* Core; but the Core and the Handles; but the Core, the cell and the
\* adapter; but the Core and the test's mailboxes
Others == <<cellVars, testVars, handleVars, adVars, nestVars, lockVars>>

NotHandle == <<cellVars, testVars, adVars, nestVars, lockVars>>

NotAdapter == <<testVars, handleVars, nestVars, lockVars>>

NotTest == <<cellVars, handleVars, adVars, nestVars, lockVars>>

\* the executor under arbitrary tasks and wakers
Next ==
    /\ \/ Spawn
       \/ SpawnDead
       \/ RunFuture
       \/ CoreRun
       \/ RunFutureRun
       \/ DropRun
       \/ DropCore
       \/ CoreTurn
       \/ RunTurn
       \/ \E o \in MainOutcomes : PollEnd(o)
       \/ Park
       \/ \E t \in held : Unpark(t)
    /\ UNCHANGED Others

Spec == Init /\ [][Next]_vars

\* one result-cell pair under any order of calls
NextCell ==
    /\ \/ \E v \in CellValues : CellSend(v)
       \/ CellTake
       \/ DropSender
       \/ DropReceiver
    /\ UNCHANGED <<coreVars, testVars, handleVars, adVars, nestVars, lockVars>>

SpecCell == Init /\ [][NextCell]_vars

\* the round trip of tests/simple.rs
DriveTest == TestSpawn \/ TestRun \/ TestTurn \/ TestReceive \/ TestPollEnd

NextTest ==
    /\ \/ TestSpawn
       \/ TestRun
       \/ TestTurn
       \/ TestReceive
       \/ TestPollEnd
       \/ \E m \in Messages : DeliverPush(m)
       \/ \E m \in Messages : DeliverUnpark(m)
       \/ \E m \in Messages : DeliverDone(m)
    /\ UNCHANGED NotTest

SpecTest ==
    /\ Init
    /\ [][NextTest]_vars
    /\ WF_vars(DriveTest /\ UNCHANGED NotTest)
    /\ \A m \in Messages :
           WF_vars(Deliver(m) /\ UNCHANGED NotTest)

\* a bare Core and the Handles made from it, which may outlive it
NextHandle ==
    /\ \/ CoreHandle /\ UNCHANGED NotHandle
       \/ HandleClone /\ UNCHANGED NotHandle
       \/ HandleDrop /\ UNCHANGED NotHandle
       \/ HandleSpawn /\ UNCHANGED NotHandle
       \/ HandleSpawnDead /\ UNCHANGED NotHandle
       \/ DropCore /\ UNCHANGED Others
       \/ CoreTurn /\ UNCHANGED Others
       \/ (\E o \in AuxOutcomes : PollEnd(o))
             /\ UNCHANGED Others
       \/ Park /\ UNCHANGED Others
       \/ (\E t \in held : Unpark(t))
             /\ UNCHANGED Others

SpecHandle == Init /\ [][NextHandle]_vars

\* a bare Core whose owner keeps calling turn, with reentrant spawns
TurnStep ==
    \/ CoreTurn /\ UNCHANGED Others
    \/ (\E o \in AuxOutcomes : PollEnd(o))
          /\ UNCHANGED Others

NextSpawn ==
    /\ \/ Spawn
       \/ CoreTurn
       \/ \E o \in AuxOutcomes : PollEnd(o)
       \/ Park
       \/ \E t \in held : Unpark(t)
    /\ UNCHANGED Others

SpecSpawn == Init /\ [][NextSpawn]_vars /\ WF_vars(TurnStep)

\* Core::run on an adapter whose Handle is of the same Core; before it,
\* run-objects of other main tasks that were polled, parked and dropped
BeforeRun == adState = "Starting" /\ mode = "idle"

AdapterDrive ==
    /\ mode = "core_run"
    /\ \/ RunTurn /\ UNCHANGED Others
       \/ MainPollStarting /\ UNCHANGED NotAdapter
       \/ MainPollWaiting /\ UNCHANGED NotAdapter
       \/ WrapperPending /\ UNCHANGED NotAdapter
       \/ (\E v \in CellValues : WrapperResolve(v))
             /\ UNCHANGED NotAdapter
       \/ AdapterPollEnd /\ UNCHANGED NotAdapter

WrappedWake ==
    /\ \E t \in held : ~IsMain(tickets[t].id) /\ Unpark(t)
    /\ UNCHANGED Others

NextAdapter ==
    \/ BeforeRun /\ Len(tickets) + 2 < MaxTickets /\ RunFuture
          /\ UNCHANGED Others
    \/ RunTurn /\ UNCHANGED Others
    \/ BeforeRun /\ (\E o \in MainOutcomes : PollEnd(o)) /\ UNCHANGED Others
    \/ BeforeRun /\ Park /\ UNCHANGED Others
    \/ BeforeRun /\ DropRun /\ UNCHANGED Others
    \/ BeforeRun /\ CoreRun /\ UNCHANGED Others
    \/ MainPollStarting /\ UNCHANGED NotAdapter
    \/ MainPollWaiting /\ UNCHANGED NotAdapter
    \/ WrapperPending /\ UNCHANGED NotAdapter
    \/ (\E v \in CellValues : WrapperResolve(v))
          /\ UNCHANGED NotAdapter
    \/ AdapterPollEnd /\ UNCHANGED NotAdapter
    \/ (\E t \in held : Unpark(t)) /\ UNCHANGED Others

SpecAdapter ==
    /\ Init
    /\ [][NextAdapter]_vars
    /\ WF_vars(AdapterDrive)
    /\ WF_vars(WrappedWake)

\* an adapter polled by a task of another executor, its Handle's Core
\* being turned, and possibly dropped, by its owner
NextCollect ==
    \/ OtherPollStarting /\ UNCHANGED NotAdapter
    \/ OtherPollWaiting /\ UNCHANGED NotAdapter
    \/ CoreTurn /\ UNCHANGED Others
    \/ WrapperPending /\ UNCHANGED NotAdapter
    \/ (\E v \in CellValues : WrapperResolve(v))
          /\ UNCHANGED NotAdapter
    \/ AdapterPollEnd /\ UNCHANGED NotAdapter
    \/ (\E t \in held : Unpark(t)) /\ UNCHANGED Others
    \/ CollectDropCore /\ UNCHANGED NotAdapter

SpecCollect == Init /\ [][NextCollect]_vars

\* a Core, or a RunFuture, polled as a task of another executor
NotNested == <<cellVars, testVars, handleVars, adVars, lockVars>>

NextNested ==
    \/ NestedRunFuture /\ UNCHANGED NotNested
    \/ NestedPollBegin /\ UNCHANGED NotNested
    \/ NestedTurn /\ UNCHANGED NotNested
    \/ NestedYield /\ UNCHANGED NotNested
    \/ (polling # NoPoll \/ nestSt = "waiting") /\ Spawn
          /\ UNCHANGED <<NotNested, nestVars>>
    \/ (\E o \in MainOutcomes : PollEnd(o))
          /\ UNCHANGED <<NotNested, nestVars>>
    \/ Park /\ UNCHANGED <<NotNested, nestVars>>
    \/ (\E t \in held : Unpark(t)) /\ UNCHANGED <<NotNested, nestVars>>

SpecNested == Init /\ [][NextNested]_vars

\* the lock protocol: one drive thread and the threads that trigger
NotLocks ==
    <<held, slots, free, run, polling, mode, ret, coreAlive, abandoned,
      cellVars, testVars, handleVars, adVars, nestVars>>

NextLock ==
    \/ (\E th \in LockThreads, t \in 1..Len(tickets),
           op \in {"unpark", "deactivate"} : LockCallTicket(th, op, t))
          /\ UNCHANGED NotLocks
    \/ (\E op \in {"turn", "run_future"} : LockCallQueue(op))
          /\ UNCHANGED NotLocks
    \/ LockCallSpawn /\ UNCHANGED NotLocks
    \/ (\E th \in LockThreads : LockTicket(th)) /\ UNCHANGED NotLocks
    \/ (\E th \in LockThreads : LockQueue(th)) /\ UNCHANGED NotLocks
    \/ (\E th \in LockThreads : LockedQueueCall(th)) /\ UNCHANGED NotLocks
    \/ LockedPop /\ UNCHANGED NotLocks
    \/ LockedRemoveMain /\ UNCHANGED NotLocks
    \/ (\E th \in LockThreads : LockReturn(th)) /\ UNCHANGED NotLocks

\* a running thread is scheduled, and a Mutex that is released again and
\* again does not pass a waiting thread over for ever
SpecLock ==
    /\ Init
    /\ [][NextLock]_vars
    /\ \A th \in LockThreads :
          /\ WF_vars(LockRuns(th) /\ UNCHANGED NotLocks)
          /\ SF_vars(LockGranted(th) /\ UNCHANGED NotLocks)

\* ------------------------------------------------------------------------
\* Properties of the executor
\* ------------------------------------------------------------------------
\* the task behind identifier id exists and is not inside its own poll
Live(id) ==
    IF IsMain(id)
    THEN run # NoRun /\ ~run.done /\ polling.tag # "main"
    ELSE SlotAt(ToAux(id)).tag = "some"

\* this step is the return of a poll that answered NotReady
PollReportsNotReady ==
    /\ polling # NoPoll
    /\ polling' = NoPoll
    /\ IF polling.tag = "main"
       THEN ret'.res = "NotReady"
       ELSE slots'[polling.id].tag = "some"

\* this step is a turn that dequeues
Dequeues == queue # <<>> /\ (CoreTurn \/ RunTurn)

\* C1: the ready queue never holds an identifier twice, and every trigger
\* of a ticket, however often repeated, leaves exactly one entry for the
\* ticket's identifier.
C1_Dedup ==
    /\ [](\A i \in Range(queue) : Count(queue, i) = 1)
    /\ [][\A t \in held :
             Unpark(t) => Count(queue', tickets[t].id) = 1]_vars

\* a task's ticket was triggered twice while its poll was running
C1_Witness ==
    /\ polling # NoPoll
    /\ polling.woken >= 2
    /\ Count(queue, polling.id) = 1

\* C2: a wake that arrives after the dequeue is not lost: when the poll
\* answers NotReady the identifier is queued at the end of the turn; and a
\* queued identifier of a live task never moves back, moves one place
\* forward with every dequeue, and leaves the queue only by being dequeued
\* into a poll of its task (or with the task's owner being dropped).
C2_NoLostWake ==
    [][/\ (PollReportsNotReady /\ polling.woken > 0)
            => polling.id \in Range(queue')
       /\ \A id \in Range(queue) :
            Live(id) =>
              \/ /\ id \in Range(queue')
                 /\ Pos(queue', id) <= Pos(queue, id)
                 /\ Dequeues => Pos(queue', id) = Pos(queue, id) - 1
              \/ /\ Pos(queue, id) = 1
                 /\ polling = NoPoll
                 /\ polling' # NoPoll
                 /\ polling'.id = id
              \/ IsMain(id) /\ run' = NoRun
              \/ ~coreAlive']_vars

\* a spawned task woken during its own poll, queued behind another one
C2_Witness ==
    /\ polling.tag = "aux"
    /\ polling.woken > 0
    /\ polling.id \in Range(queue)
    /\ Pos(queue, polling.id) > 1

\* a run loop returns in the step in which the main poll answers Ready
RunReturnsMainValue ==
    (polling.tag = "main" /\ mode # "idle" /\ PollEnd("Ready"))
        => /\ ret' = Ret("run", "Ok", ValueOf(polling.ticket))
           /\ mode' = "idle"

\* C4: run_future leaves the main identifier queued exactly once, also
\* after an abandoned run-object; it stays queued until the new main task
\* is polled, and a run loop returns the value of a main task that
\* resolves when polled.
C4_FreshRun ==
    /\ [][(run = NoRun /\ run' # NoRun) => Count(queue', MainId) = 1]_vars
    /\ []((run # NoRun /\ ~run.polled /\ polling.tag # "main")
            => MainId \in Range(queue))
    /\ [][RunReturnsMainValue]_vars

\* a run loop has returned Ok on a Core on which a run-object was abandoned
C4_Witness ==
    /\ abandoned
    /\ mode = "idle"
    /\ ret.op = "run" /\ ret.res = "Ok"
    /\ ret.val = ValueOf(Len(tickets))

\* C5: a run loop returns the main task's value in the very step in which
\* the main poll answers Ready, whatever spawned tasks are pending; a
\* spawned task leaves its slot only to be polled, comes back into the
\* same slot when it answers NotReady, and is otherwise dropped only with
\* the Core.
C5_RunOutlivesAux ==
    [][/\ RunReturnsMainValue
       /\ (polling.tag = "main" /\ PollEnd("Ready")) => slots' = slots
       /\ \A i \in 1..Len(slots) :
            slots[i].tag = "some" =>
              \/ i <= Len(slots') /\ slots'[i] = slots[i]
              \/ /\ Dequeues
                 /\ polling' = Polling("aux", i, slots[i].ticket)
                 /\ slots'[i] = NoneSlot
              \/ ~coreAlive'
       /\ (polling.tag = "aux" /\ PollEnd("NotReady"))
            => slots'[polling.id] = SomeSlot(polling.ticket)]_vars

\* run has returned Ok while a polled, parked spawned task is in its slot
C5_Witness ==
    /\ coreAlive
    /\ mode = "idle"
    /\ ret.op = "run" /\ ret.res = "Ok"
    /\ \E i \in 1..Len(slots) :
          slots[i].tag = "some" /\ slots[i].ticket \in held

\* C6: Core::turn with an empty queue and an empty task store returns
\* Ready(()) and changes nothing.
C6_IdleTurn ==
    [][(queue = <<>> /\ ArenaIsEmpty /\ CoreTurn)
         => /\ ret' = Ret("turn", "Ready", 0)
            /\ UNCHANGED <<queue, tickets, held, slots, free, run, polling,
                           mode, coreAlive, abandoned>>]_vars

\* the first call on a fresh Core was turn and it returned Ready
C6_Witness ==
    /\ tickets = <<>>
    /\ coreAlive
    /\ ret = Ret("turn", "Ready", 0)

\* C7: Core::turn returns Ready(()) whenever the task store holds no
\* spawned task.
C7_ReadyWhenNoSpawns ==
    [][(ArenaIsEmpty /\ CoreTurn) => ret' = Ret("turn", "Ready", 0)]_vars

\* ------------------------------------------------------------------------
\* Properties of the mailbox round trip
\* ------------------------------------------------------------------------
\* core.run(...) has returned to the test
TestDone == mode = "idle" /\ ret.op = "run"

IsPrefix(a, b) == Len(a) <= Len(b) /\ \A i \in 1..Len(a) : a[i] = b[i]

\* C3: under every interleaving of the four sender threads with the
\* drive loop, run terminates, no assert of the test fails, each task
\* receives its messages in the order sent, and run returns Ok after the
\* main task has received "hi" and then "bye".
C3_RoundTrip ==
    /\ <>TestDone
    /\ [](pollOut # "Panic")
    /\ [](/\ IsPrefix(got["main"], <<"hi", "bye">>)
          /\ IsPrefix(got["aux"], <<"hello", "goodbye">>))
    /\ [](TestDone => /\ ret = Ret("run", "Ok", ValueOf(Len(tickets)))
                      /\ got["main"] = <<"hi", "bye">>
                      /\ got["aux"] = <<"hello", "goodbye">>)

\* run has returned and the main task's last message was "bye"
C3_Witness ==
    /\ TestDone
    /\ got["main"] = <<"hi", "bye">>
    /\ \A m \in Messages : threads[m] = "done"

\* ------------------------------------------------------------------------
\* Properties of the result cell
\* ------------------------------------------------------------------------
IsSend(e) == e.op = "send"

IsTake(e) == e.op = "take"

LogIdx == 1..Len(cellLog)

\* C8: the cell is written at most once, at most one take returns a
\* value, a returned value is the one an earlier send stored, and the
\* first take after a successful send returns exactly the value sent.
C8_SingleDelivery ==
    /\ cellWrites <= 1
    /\ Cardinality({j \in LogIdx :
                       IsTake(cellLog[j]) /\ cellLog[j].res = "Ok"}) <= 1
    /\ \A j \in LogIdx :
          (IsTake(cellLog[j]) /\ cellLog[j].res = "Ok")
            => \E i \in 1..(j - 1) :
                  /\ cellLog[i] = Ret("send", "Ok", cellLog[j].val)
    /\ \A i \in LogIdx, j \in LogIdx :
          (/\ i < j
           /\ IsSend(cellLog[i]) /\ cellLog[i].res = "Ok"
           /\ IsTake(cellLog[j])
           /\ \A k \in (i + 1)..(j - 1) : ~IsTake(cellLog[k]))
            => cellLog[j] = Ret("take", "Ok", cellLog[i].val)

\* a value was sent and then taken
C8_Witness ==
    \E i \in LogIdx, j \in LogIdx :
        /\ i < j
        /\ IsSend(cellLog[i]) /\ cellLog[i].res = "Ok"
        /\ cellLog[j] = Ret("take", "Ok", cellLog[i].val)

\* C9: a take that finds the cell empty returns Err(None) exactly when the
\* Sender was dropped unused before it, and Err(Some(receiver)) otherwise;
\* and a take that directly follows a send after such a handed-back
\* Receiver returns the value sent.
C9_AbsentTake ==
    /\ \A j \in LogIdx :
          (IsTake(cellLog[j]) /\ cellLog[j].val = 0)
            => /\ cellLog[j].res \in {"ErrNone", "ErrSome"}
               /\ cellLog[j].res = "ErrNone"
                    <=> \E i \in 1..(j - 1) : cellLog[i].op = "drop_sender"
               /\ \A i \in 1..(j - 1) : ~IsSend(cellLog[i])
    /\ \A j \in LogIdx :
          (/\ j + 2 <= Len(cellLog)
           /\ cellLog[j] = Ret("take", "ErrSome", 0)
           /\ IsSend(cellLog[j + 1])
           /\ IsTake(cellLog[j + 2]))
            => /\ cellLog[j + 1].res = "Ok"
               /\ cellLog[j + 2] = Ret("take", "Ok", cellLog[j + 1].val)

\* the Sender was dropped unused and a take then returned Err(None)
C9_Witness ==
    \E i \in LogIdx, j \in LogIdx :
        /\ i < j
        /\ cellLog[i].op = "drop_sender"
        /\ cellLog[j] = Ret("take", "ErrNone", 0)

\* this step is a call of send
SendStep ==
    /\ Len(cellLog') = Len(cellLog) + 1
    /\ IsSend(cellLog'[Len(cellLog')])

\* C10: send(v) stores v and returns Ok while the Receiver exists, and
\* returns Err(v) and stores nothing once the Receiver is gone.
C10_SendNeverDrops ==
    [][SendStep =>
         LET e == cellLog'[Len(cellLog')]
         IN IF receiverSt = "live"
            THEN /\ e.res = "Ok"
                 /\ cellVal' = e.val
                 /\ cellWrites' = cellWrites + 1
            ELSE /\ e.res = "Err"
                 /\ e.val \in CellValues
                 /\ cellVal' = cellVal
                 /\ cellWrites' = cellWrites]_vars

\* the Receiver was dropped and a send then returned its value
C10_Witness ==
    \E i \in LogIdx, j \in LogIdx :
        /\ i < j
        /\ cellLog[i].op = "drop_receiver"
        /\ IsSend(cellLog[j]) /\ cellLog[j].res = "Err"
        /\ cellVal = 0

\* ------------------------------------------------------------------------
\* Properties of Handles
\* ------------------------------------------------------------------------
\* C11: once the Core is destroyed no step allocates a slot, builds a
\* ticket, starts a poll or reports an error, and the queue only changes by
\* the trigger of a ticket that still exists, so a spawn through a
\* surviving Handle is a silent no-op whose task is discarded; and making,
\* cloning or dropping a Handle leaves the queue and the task store alone.
C11_DeadSpawnNoOp ==
    [][ /\ ~coreAlive =>
            /\ slots' = slots /\ free' = free /\ tickets' = tickets
            /\ polling' = NoPoll
            /\ ret' = NoRet
            /\ queue' = queue \/ \E t \in held : queue' = unpark(queue, t)
        /\ (~coreAlive /\ discarded' /\ ~discarded) => queue' = queue
        /\ handles' # handles =>
            UNCHANGED <<queue, slots, free, tickets, polling>> ]_vars

\* a Handle and a queued identifier outlived the Core, and a task was
\* spawned through the Handle and dropped
C11_Witness ==
    /\ ~coreAlive
    /\ handles > 0
    /\ discarded
    /\ queue # <<>>
    /\ slots = <<>>

\* C12: a spawn on a live Core leaves the new task in the slot it was given,
\* as {task, ticket}, with the identifier slot index + 1 in the ready queue;
\* and while turn keeps being called every spawned task gets polled.
C12_SpawnedIsPolled ==
    /\ [][Len(tickets') > Len(tickets) =>
            LET t == Len(tickets')
            IN /\ tickets'[t].id = AuxId(NextIndex)
               /\ slots'[NextIndex + 1] = SomeSlot(t)
               /\ AuxId(NextIndex) \in Range(queue')]_vars
    /\ \A t \in 1..MaxTickets :
           <>(Len(tickets) >= t) => <>(polling # NoPoll /\ polling.ticket = t)

\* the second task, spawned into the slot the first one freed, is polled
C12_Witness ==
    /\ polling # NoPoll
    /\ polling.ticket = 2
    /\ polling.id = AuxId(0)
    /\ Len(tickets) = 2

\* ------------------------------------------------------------------------
\* Properties of completed tasks' tickets
\* ------------------------------------------------------------------------
\* ticket t belongs to a task that has reported Ready, after which turn_with
\* called deactivate on it: an auxiliary task of a live Core that is in no
\* slot and not being polled, or the main task whose value was just returned
Deactivated(t) ==
    IF IsMain(tickets[t].id)
    THEN /\ ret.op \in {"rturn", "run"}
         /\ ret.res \in {"Ready", "Ok"}
         /\ ret.val = ValueOf(t)
    ELSE /\ coreAlive
         /\ \A i \in 1..Len(slots) : slots[i].ticket # t
         /\ polling.ticket # t

\* C13: a trigger of a ticket whose task has reported Ready and which has
\* been deactivated leaves the ready queue unchanged.
C13_DeactivationPermanent ==
    [][\A t \in held :
          (Deactivated(t) /\ polling' = polling /\ queue' = unpark(queue, t)
             /\ UNCHANGED <<slots, tickets, run, ret, mode, held, coreAlive>>)
          => queue' = queue]_vars

\* ticket t was built for an earlier occupant of its slot, which completed
OldTicket(t) ==
    /\ coreAlive
    /\ ~IsMain(tickets[t].id)
    /\ \A i \in 1..Len(slots) : slots[i].ticket # t
    /\ polling.ticket # t

\* C14: no queued identifier of a live Core names a free slot, and a
\* trigger of an earlier occupant's ticket never enqueues the slot's
\* identifier, whether the slot is free or holds a later task.
C14_NoStaleWakes ==
    /\ [](coreAlive =>
            \A i \in 1..Len(queue) :
               ~IsMain(queue[i]) => SlotAt(ToAux(queue[i])).tag # "vacant")
    /\ [][\A t \in held :
             (OldTicket(t) /\ queue' = unpark(queue, t)
                /\ UNCHANGED <<slots, free, tickets, polling>>)
             => (tickets[t].id \in Range(queue')
                   => tickets[t].id \in Range(queue))]_vars

\* ------------------------------------------------------------------------
\* Properties of the spawn-and-collect adapter
\* ------------------------------------------------------------------------
\* Core::run on the adapter has returned
AdapterRunDone == mode = "idle" /\ ret.op = "run"

\* C15: Core::run on an adapter of the same Core returns once the wrapped
\* future has resolved, with exactly its value or its error; the adapter's
\* poll that follows the wrapper's wake finds the result in the cell; a
\* poll in Waiting before the result is stored stays in Waiting and answers
\* NotReady; and no poll of the adapter panics.
C15_RunReturnsWrapped ==
    /\ (mode = "core_run") ~> AdapterRunDone
    /\ [](AdapterRunDone =>
            /\ adResult # 0
            /\ adRet = Ret("poll",
                           IF adResult \in OkValues THEN "Ready" ELSE "Err",
                           adResult)
            /\ ret.res = IF adResult \in OkValues THEN "Ok" ELSE "Err")
    /\ []((AdapterPolled /\ adState = "Waiting" /\ adResult # 0)
            => cellVal = adResult)
    /\ [][(AdapterPolled /\ adState = "Waiting" /\ adResult = 0
             /\ adOut' # adOut)
           => (adState' = "Waiting" /\ adOut' = "NotReady")]_vars
    /\ [](adOut # "Panic")

\* run returned the wrapped future's error, the wrapped future having
\* answered NotReady first and a ticket of an earlier main task being
\* held by a waker
C15_Witness ==
    /\ AdapterRunDone
    /\ adResult \notin OkValues
    /\ adPending > 0
    /\ held # {}
    /\ IsMain(tickets[1].id)

\* C16 as stated: after a poll of the adapter has returned NotReady, Ready
\* or an error, its state is Starting or Waiting, never Invalid.
C16_NeverInvalid ==
    adRet.res \in {"NotReady", "Ready", "Err"}
       => adState \in {"Starting", "Waiting"}

\* C16, amended: the state is Starting until the first poll, Waiting after
\* every poll that returned NotReady, and Invalid after the poll that
\* returned Ready or an error.
C16_InvalidOnceDone ==
    /\ adRet = NoRet => adState = "Starting"
    /\ adRet.res = "NotReady" => adState = "Waiting"
    /\ adRet.res \in {"Ready", "Err"} => adState = "Invalid"

\* the adapter has returned the wrapped future's value
C16_Witness ==
    /\ adRet.res = "Ready"
    /\ adRet.val = adResult
    /\ adState = "Invalid"

\* the wrapper task is stored in the Core, or inside its own poll
WrapperExists ==
    coreAlive /\ \E i \in 1..Len(slots) : slots[i].tag # "vacant"

\* what a poll of the adapter in Waiting answers in the current state
WaitingPollAnswer == WaitingAnswer(TakeResult(cellVal, senderSt), cellVal)

\* C18: between two calls on the Core, a poll of the adapter in Waiting
\* panics exactly when the cell is empty and the wrapper is gone without
\* having sent; and a poll that has panicked found that situation and
\* reported neither Ready, NotReady nor an error.
C18_AbortIffWrapperLost ==
    /\ (Idle /\ adState = "Waiting") =>
          (WaitingPollAnswer = "Panic"
             <=> (cellVal = 0 /\ ~WrapperExists /\ adResult = 0))
    /\ adRet.res = "Panic" =>
          /\ cellVal = 0 /\ ~WrapperExists /\ adResult = 0
          /\ adState = "Invalid"

\* the Core was dropped with the unfinished wrapper in its store, and the
\* next poll of the adapter panicked
C18_Witness ==
    /\ adRet.res = "Panic"
    /\ ~coreAlive
    /\ Len(tickets) = 1
    /\ adPending > 0

\* ------------------------------------------------------------------------
\* Properties of the Core polled as a task
\* ------------------------------------------------------------------------
\* C17: a poll of the Core or of a RunFuture returns after exactly one
\* turn; when the turn gave None or NotReady the poll returns NotReady
\* with the polling task's wake pending, so the task never waits without
\* a pending wake; a turn of the bare Core that finds the queue and the
\* task store empty gives Ready, and the poll then returns Ready.
C17_NestedPollYields ==
    /\ [](nestSt = "waiting" => nestWake)
    /\ [][(nestSt = "polling" /\ nestSt' # "polling") =>
            /\ nestTurns = 1
            /\ ret.res \in {"None", "NotReady"} =>
                  (nestSt' = "waiting" /\ nestWake' /\ nestRet' = "NotReady")
            /\ ret.res \notin {"None", "NotReady"} =>
                  (nestSt' = "done" /\ nestRet' = ret.res)]_vars
    /\ [][(nestSt = "polling" /\ nestTurns = 0 /\ nestTurns' = 1
             /\ run = NoRun /\ queue = <<>> /\ ArenaIsEmpty)
           => ret'.res = "Ready"]_vars
    /\ []((nestSt = "done" /\ run = NoRun)
            => (nestRet = "Ready" /\ ArenaIsEmpty))

\* the nested Core has polled tasks, answered NotReady to its executor
\* and been polled again until it reported Ready
C17_Witness ==
    /\ nestSt = "done"
    /\ nestRet = "Ready"
    /\ run = NoRun
    /\ Len(tickets) >= 2
    /\ held # {}

\* ------------------------------------------------------------------------
\* Properties of the locks
\* ------------------------------------------------------------------------
\* the ticket locks thread th holds
TicketLocksHeld(th) == {i \in 1..Len(tlock) : tlock[i] = th}

\* how many locks thread th holds
LocksHeld(th) ==
    Cardinality(TicketLocksHeld(th)) + (IF qlock = th THEN 1 ELSE 0)

\* C19 as stated: no thread ever holds more than one lock.
C19_OneLockAtATime == \A th \in LockThreads : LocksHeld(th) <= 1

\* C19, amended: unpark, deactivate and new_ticket hold the queue lock
\* inside the ticket lock, two locks at once; the dequeue of turn and the
\* removal in run_future hold the queue lock alone; no thread holds two
\* ticket locks.
C19_QueueInsideTicket ==
    \A th \in LockThreads :
       /\ Cardinality(TicketLocksHeld(th)) <= 1
       /\ thr[th].pc = "in_q" =>
             (qlock = th /\ tlock[thr[th].t] = th /\ LocksHeld(th) = 2)
       /\ thr[th].pc = "in_q0" => (qlock = th /\ LocksHeld(th) = 1)
       /\ qlock = th => thr[th].pc \in {"in_q", "in_q0"}

\* a thread is inside push_back under its ticket's lock and the queue lock
\* while the drive thread waits to deactivate the same ticket
C19_Witness ==
    /\ thr["w1"].pc = "in_q"
    /\ LocksHeld("w1") = 2
    /\ thr["drive"].op = "deactivate"
    /\ thr["drive"].pc = "want_t"
    /\ thr["drive"].t = thr["w1"].t

\* thread th has called lock() on a Mutex that another call holds
Blocked(th) ==
    \/ thr[th].pc = "want_t" /\ tlock[thr[th].t] # "-"
    \/ thr[th].pc \in {"want_q", "want_q0"} /\ qlock # "-"

\* C20: no thread requests a ticket lock while it holds the queue lock;
\* while some thread is inside a call, some such thread is not blocked;
\* and every lock() call returns: no thread waits for a lock for ever.
C20_DeadlockFree ==
    /\ [](\A th \in LockThreads : thr[th].pc = "want_t" => qlock # th)
    /\ []((\E th \in LockThreads : thr[th].pc # "idle")
            => \E th \in LockThreads : thr[th].pc # "idle" /\ ~Blocked(th))
    /\ \A th \in LockThreads :
          []<>(thr[th].pc \notin {"want_t", "want_q", "want_q0"})

\* the drive thread holds the queue lock in turn, one thread holds a
\* ticket's lock and waits for the queue, another waits for that ticket
C20_Witness ==
    /\ thr["drive"].pc = "in_q0"
    /\ thr["w1"].pc = "want_q"
    /\ thr["w2"].pc = "want_t"
    /\ thr["w2"].t = thr["w1"].t
    /\ Blocked("w1") /\ Blocked("w2")

\* ------------------------------------------------------------------------
\* Properties of a poll in progress
\* ------------------------------------------------------------------------
\* C21: while an auxiliary task is polled its slot is None, allocated and
\* not on the free list; a spawn made during the poll gets another slot
\* and identifier and leaves the polled slot as it is; the poll's return
\* either puts the task back into that slot or frees it, touching no other
\* slot; and a poll only ever starts by dequeuing its task's identifier
\* from the front and ends before another poll starts, so what is spawned
\* or woken during a poll is polled on a later dequeue.
C21_PolledSlotStaysAllocated ==
    /\ [](polling.tag = "aux" =>
            /\ coreAlive
            /\ SlotAt(ToAux(polling.id)).tag = "none"
            /\ ToAux(polling.id) \notin Range(free))
    /\ [][(polling.tag = "aux" /\ Len(tickets') > Len(tickets)) =>
            LET t == Len(tickets')
            IN /\ tickets'[t].id # polling.id
               /\ slots'[tickets'[t].id] = SomeSlot(t)
               /\ slots'[polling.id].tag = "none"
               /\ tickets'[t].id \in Range(queue')
               /\ polling' = polling]_vars
    /\ [][(polling.tag = "aux" /\ polling' = NoPoll) =>
            /\ \/ /\ slots'[polling.id] = SomeSlot(polling.ticket)
                  /\ free' = free
               \/ /\ slots'[polling.id].tag = "vacant"
                  /\ free' = <<ToAux(polling.id)>> \o free
                  /\ polling.id \notin Range(queue')
            /\ \A i \in 1..Len(slots) :
                  i # polling.id => slots'[i] = slots[i]
            /\ ret'.res = "NotReady"]_vars
    /\ [][polling' # polling =>
            \/ /\ polling = NoPoll
               /\ queue # <<>>
               /\ Head(queue) = polling'.id
               /\ queue' = Tail(queue)
               /\ polling'.woken = 0
            \/ polling' = NoPoll
            \/ /\ polling'.id = polling.id
               /\ polling'.ticket = polling.ticket
               /\ polling'.tag = polling.tag]_vars

\* in the second poll of the first task, a second task has been spawned
\* and the polled task's own ticket triggered: both identifiers wait in
\* the queue, the new task is stored, the polled slot is None
C21_Witness ==
    /\ polling.tag = "aux"
    /\ polling.ticket = 1
    /\ polling.woken > 0
    /\ Len(tickets) = 2
    /\ held = {1}
    /\ ret.res = "NotReady"
    /\ Range(queue) = {1, 2}
    /\ slots = <<NoneSlot, SomeSlot(2)>>

====
